---- MODULE Spec2Model ----
(***************************************************************************)
(* A model of the three programs of the repository that read a git object  *)
(* store directly:                                                         *)
(*   git_dependency_visualizer.py  scan by tree reference, DOT output      *)
(*   visualizer.py                 global scan by author date, PlantUML    *)
(*   test.py                       first-parent style walk from HEAD       *)
(* Python strings are TLA+ strings; the str methods the code calls are     *)
(* operators computed character by character.                              *)
(***************************************************************************)
EXTENDS Integers, Sequences, FiniteSets, TLC

(***************************************************************************)
(* Python str methods                                                      *)
(***************************************************************************)

\* The byte \x00 that ends an object's header (TLA+ strings cannot hold it).
NUL == "^"

\* Python's None, for a value that is otherwise a string.
None == "None"

Last(seq) == seq[Len(seq)]

\* s.startswith(p)
StartsWith(s, p) == Len(s) >= Len(p) /\ SubSeq(s, 1, Len(p)) = p

\* `sub in s` on strings
Contains(sub, s) ==
    \E k \in 1..(Len(s) - Len(sub) + 1) : SubSeq(s, k, k + Len(sub) - 1) = sub

IsSpace(c) == c \in {" ", "\t", "\n"}

\* The k-th character of s
Char(s, k) == SubSeq(s, k, k)

\* The n-th smallest element of a set of integers
Nth(S, n) == CHOOSE p \in S : Cardinality({q \in S : q < p}) = n - 1

\* The pieces of s that start at `starts` and end at `ends`
Pieces(s, starts, ends) ==
    [j \in 1..Cardinality(starts) |-> SubSeq(s, Nth(starts, j), Nth(ends, j))]

\* s.split(): the words of s, separated by runs of whitespace
Split(s) ==
    Pieces(s,
           {k \in 1..Len(s) : ~IsSpace(Char(s, k)) /\ (k = 1 \/ IsSpace(Char(s, k - 1)))},
           {k \in 1..Len(s) : ~IsSpace(Char(s, k)) /\ (k = Len(s) \/ IsSpace(Char(s, k + 1)))})

\* The first maxsplit elements of `all` (all of them when maxsplit < 0)
FirstCuts(all, maxsplit) ==
    IF maxsplit < 0 THEN all
    ELSE {k \in all : Cardinality({q \in all : q < k}) < maxsplit}

\* s.split(sep, maxsplit) for a one-character sep (maxsplit -1: no limit);
\* empty pieces are kept
SplitSep(s, sep, maxsplit) ==
    \* the pieces lie between the cuts: each starts after one and ends before the next
    LET cuts == FirstCuts({k \in 1..Len(s) : Char(s, k) = sep}, maxsplit)
    IN  Pieces(s, {1} \cup {k + 1 : k \in cuts}, {k - 1 : k \in cuts} \cup {Len(s)})

\* s.splitlines(): as split("\n") without the empty piece after a final "\n"
SplitLines(s) ==
    LET parts == SplitSep(s, "\n", -1)
    IN  IF Last(parts) = "" THEN SubSeq(parts, 1, Len(parts) - 1) ELSE parts

RECURSIVE Join(_, _)
\* sep.join(seq)
Join(seq, sep) ==
    IF seq = <<>> THEN ""
    ELSE IF Len(seq) = 1 THEN seq[1]
    ELSE seq[1] \o sep \o Join(Tail(seq), sep)

Digits == <<"0", "1", "2", "3", "4", "5", "6", "7", "8", "9">>

IsDigit(c) == \E d \in 1..10 : Digits[d] = c

DigitValue(c) == (CHOOSE d \in 1..10 : Digits[d] = c) - 1

RECURSIVE IntFrom(_, _, _)
IntFrom(s, k, acc) ==
    IF k > Len(s) THEN acc
    ELSE IntFrom(s, k + 1, 10 * acc + DigitValue(SubSeq(s, k, k)))

\* whether int(s) succeeds: an optional sign, then digits only
IsInt(s) ==
    LET body == IF StartsWith(s, "-") \/ StartsWith(s, "+")
                THEN SubSeq(s, 2, Len(s)) ELSE s
    IN  /\ Len(body) > 0
        /\ \A k \in 1..Len(body) : IsDigit(SubSeq(body, k, k))

\* int(s), where IsInt(s)
ToInt(s) ==
    IF StartsWith(s, "-") THEN 0 - IntFrom(s, 2, 0)
    ELSE IF StartsWith(s, "+") THEN IntFrom(s, 2, 0)
    ELSE IntFrom(s, 1, 0)

RECURSIVE StrFrom(_)
StrFrom(n) ==
    IF n < 10 THEN Digits[n + 1] ELSE StrFrom(n \div 10) \o Digits[(n % 10) + 1]

\* str(n), as an f-string formats an int
ToStr(n) == IF n < 0 THEN "-" \o StrFrom(0 - n) ELSE StrFrom(n)


RECURSIVE StripLeft(_)
StripLeft(s) ==
    IF Len(s) > 0 /\ IsSpace(SubSeq(s, 1, 1)) THEN StripLeft(SubSeq(s, 2, Len(s))) ELSE s

RECURSIVE StripRight(_)
StripRight(s) ==
    IF Len(s) > 0 /\ IsSpace(SubSeq(s, Len(s), Len(s)))
    THEN StripRight(SubSeq(s, 1, Len(s) - 1)) ELSE s

\* s.strip()
Strip(s) == StripLeft(StripRight(s))

\* s[:n] and s[n:], which never raise
SliceTo(s, n) == SubSeq(s, 1, IF Len(s) < n THEN Len(s) ELSE n)

SliceFrom(s, n) == IF Len(s) <= n THEN "" ELSE SubSeq(s, n + 1, Len(s))

(***************************************************************************)
(* Python values                                                           *)
(***************************************************************************)

\* A call's outcome: the value returned, or the name of the exception raised.
Ok(v) == [exc |-> "", val |-> v]

Raise(e) == [exc |-> e, val |-> <<>>]

\* An optional value (None, or a value)
Nothing == <<>>

Some(v) == <<v>>

\* A dict with string keys is a function; d[k] = v and d.get(k, default)
EmptyDict == <<>>

DictSet(d, k, v) == (k :> v) @@ d

DictGet(d, k, default) == IF k \in DOMAIN d THEN d[k] ELSE default

\* A dict whose iteration order matters (the commit graph) is the sequence of
\* its items in insertion order; g[k] = v keeps the place of a key already there.
GraphSet(g, k, v) ==
    IF \E j \in 1..Len(g) : g[j].key = k
    THEN [j \in 1..Len(g) |-> IF g[j].key = k THEN [key |-> k, val |-> v] ELSE g[j]]
    ELSE Append(g, [key |-> k, val |-> v])

\* A bytes value: its text, and whether it is valid UTF-8 (decode raises
\* UnicodeDecodeError when it is not).
Bytes(text, utf8_ok) == [text |-> text, utf8_ok |-> utf8_ok]

\* A file of the object store: whether it is a valid zlib stream, and the
\* bytes it decompresses to.
File(zlib_ok, text, utf8_ok) == [zlib_ok |-> zlib_ok, text |-> text, utf8_ok |-> utf8_ok]

VARIABLES
    repo,                 \* the repository on disk: objects, listing, HEAD, refs
    args,                 \* the arguments of the run
    pc,                   \* where the run is
    objects,              \* find_commits' local list `objects`
    i,                    \* the index of the loop over the enumerated objects
    commits,              \* the local list `commits` of the scan or walk
    current_commit_hash,  \* the walk's position
    visited,              \* the hashes the walk has read, in order (history)
    graph,                \* the commit graph built
    result                \* what the run returned or raised

vars == <<repo, args, pc, objects, i, commits, current_commit_hash, visited, graph, result>>

(***************************************************************************)
(* Program constants                                                       *)
(***************************************************************************)

\* test.py read_commit: a hash shorter than this is refused
HashLen == 40

\* git_dependency_visualizer.py list_git_objects: the file-name length kept
FileNameLen == 38

\* object_hash[:2] is the directory, object_hash[2:] the file
DirLen == 2

(***************************************************************************)
(* The object store on disk                                                *)
(***************************************************************************)

\* The path <objects>/<object_hash[:2]>/<object_hash[2:]>
ObjectPath(object_hash) == <<SliceTo(object_hash, DirLen), SliceFrom(object_hash, DirLen)>>

\* os.path.exists(path), for a path of the object store
Exists(path) == path \in DOMAIN repo.objects

(***************************************************************************)
(* git_dependency_visualizer.py                                            *)
(***************************************************************************)

\* read_git_object: open, decompress, split at the first NUL, decode the header
gdv_read_git_object(object_hash) ==
    LET path == ObjectPath(object_hash)
    IN  IF ~Exists(path) THEN Raise("FileNotFoundError")
        ELSE LET f == repo.objects[path]
             IN  IF ~f.zlib_ok THEN Raise("zlib.error")
                 ELSE LET parts == SplitSep(f.text, NUL, 1)
                      IN  IF Len(parts) # 2 THEN Raise("ValueError")
                          ELSE Ok([header |-> parts[1],
                                   data |-> Bytes(parts[2], f.utf8_ok)])

RECURSIVE gdv_parse_lines(_, _, _, _)
gdv_parse_lines(lines, k, is_bytes, metadata) ==
    IF k > Len(lines) THEN Ok(metadata)
    ELSE IF ~is_bytes /\ lines[k] = "" THEN Ok(metadata)
    ELSE IF is_bytes THEN Raise("TypeError")
    ELSE LET kv == SplitSep(lines[k], " ", 1)
         IN  IF Len(kv) # 2 THEN Raise("ValueError")
             ELSE gdv_parse_lines(lines, k + 1, is_bytes, DictSet(metadata, kv[1], kv[2]))

\* parse_commit_data(commit_data). Given a str it stops at the blank line and
\* splits each line at its first space; given bytes (as build_dependency_graph
\* gives it) no line equals the str "" and line.split(" ", 1) raises TypeError.
gdv_parse_commit_data(text, is_bytes) == gdv_parse_lines(SplitLines(text), 1, is_bytes, EmptyDict)

\* One pass of the loop of list_git_objects over a listing
RECURSIVE list_git_objects_from(_, _, _)
list_git_objects_from(listing, k, object_hashes) ==
    IF k > Len(listing) THEN object_hashes
    ELSE list_git_objects_from(listing, k + 1,
            IF Len(listing[k][2]) = FileNameLen
            THEN Append(object_hashes, listing[k][1] \o listing[k][2])
            ELSE object_hashes)

\* list_git_objects: basename(root) + file for every file whose name has 38 characters
list_git_objects == list_git_objects_from(repo.listing, 1, <<>>)

\* The body of find_commits' loop for one object: the new `commits`, or the
\* exception that leaves find_commits
find_commits_body(obj_hash, target_file, acc) ==
    LET r == gdv_read_git_object(obj_hash)
    IN  IF r.exc # "" THEN r
        ELSE IF ~StartsWith(r.val.header, "commit") THEN Ok(acc)
        ELSE IF ~r.val.data.utf8_ok THEN Ok(acc)   \* except UnicodeDecodeError: print
        ELSE LET parsed == gdv_parse_commit_data(r.val.data.text, FALSE)
             IN  IF parsed.exc # "" THEN parsed
                 ELSE IF Contains(target_file, DictGet(parsed.val, "tree", ""))
                      THEN Ok(Append(acc, obj_hash))
                      ELSE Ok(acc)

RECURSIVE build_dependency_graph_from(_, _, _)
build_dependency_graph_from(hashes, k, g) ==
    IF k > Len(hashes) THEN Ok(g)
    ELSE LET r == gdv_read_git_object(hashes[k])
         IN  IF r.exc # "" THEN r
             ELSE LET metadata == gdv_parse_commit_data(r.val.data.text, TRUE)
                  IN  IF metadata.exc # "" THEN metadata
                      ELSE build_dependency_graph_from(hashes, k + 1,
                              GraphSet(g, hashes[k],
                                       Split(DictGet(metadata.val, "parent", ""))))

\* build_dependency_graph(repo_path, commits)
build_dependency_graph(hashes) == build_dependency_graph_from(hashes, 1, <<>>)

\* A renderer that draws each edge from the parent to the commit
RECURSIVE graphviz_edges_reversed(_, _, _)
graphviz_edges_reversed(commit, parents, k) ==
    IF k > Len(parents) THEN <<>>
    ELSE <<"    \"" \o parents[k] \o "\" -> \"" \o commit \o "\";">>
         \o graphviz_edges_reversed(commit, parents, k + 1)

RECURSIVE graphviz_edges(_, _, _)
graphviz_edges(commit, parents, k) ==
    IF k > Len(parents) THEN <<>>
    ELSE <<"    \"" \o commit \o "\" -> \"" \o parents[k] \o "\";">>
         \o graphviz_edges(commit, parents, k + 1)

RECURSIVE graphviz_items(_, _)
graphviz_items(g, k) ==
    IF k > Len(g) THEN <<>>
    ELSE <<"    \"" \o g[k].key \o "\" [label=\"" \o g[k].key \o "\"];">>
         \o graphviz_edges(g[k].key, g[k].val, 1)
         \o graphviz_items(g, k + 1)

\* generate_graphviz(graph): the lines `dot`, which the code joins with "\n"
generate_graphviz_lines(g) ==
    <<"digraph G {", "    node [shape=box, fontsize=10];">> \o graphviz_items(g, 1) \o <<"}">>

generate_graphviz(g) == Join(generate_graphviz_lines(g), "\n")

(***************************************************************************)
(* visualizer.py                                                           *)
(***************************************************************************)

\* read_git_object: the whole decompressed object, header included
vis_read_git_object(object_hash) ==
    LET path == ObjectPath(object_hash)
    IN  IF ~Exists(path) THEN Raise("FileNotFoundError")
        ELSE LET f == repo.objects[path]
             IN  IF ~f.zlib_ok THEN Raise("zlib.error")
                 ELSE Ok(Bytes(f.text, f.utf8_ok))

RECURSIVE parse_commit_object_from(_, _, _)
parse_commit_object_from(lines, k, st) ==
    IF k > Len(lines) THEN Ok(st)
    ELSE LET line == lines[k]
             w == Split(line)
         IN  IF StartsWith(line, "tree")
             THEN IF Len(w) < 2 THEN Raise("IndexError")
                  ELSE parse_commit_object_from(lines, k + 1,
                          [st EXCEPT !.tree_hash = Some(w[2])])
             ELSE IF StartsWith(line, "parent")
             THEN IF Len(w) < 2 THEN Raise("IndexError")
                  ELSE parse_commit_object_from(lines, k + 1,
                          [st EXCEPT !.parents = Append(@, w[2])])
             ELSE IF StartsWith(line, "author")
             THEN IF Len(w) < 2 THEN Raise("IndexError")
                  ELSE IF ~IsInt(w[Len(w) - 1]) THEN Raise("ValueError")
                  ELSE parse_commit_object_from(lines, k + 1,
                          [st EXCEPT !.author_time = Some(ToInt(w[Len(w) - 1]))])
             ELSE IF line = "" THEN Ok(st)
             ELSE parse_commit_object_from(lines, k + 1, st)

\* parse_commit_object(commit_data): (tree_hash, parents, author_time)
parse_commit_object(commit_data) ==
    parse_commit_object_from(SplitSep(commit_data, "\n", -1), 1,
        [tree_hash |-> Nothing, parents |-> <<>>, author_time |-> Nothing])

\* The body of get_all_commits' loop for one file: the new `commits`; every
\* exception is caught and the file skipped
get_all_commits_body(entry, date_before, acc) ==
    LET object_hash == entry[1] \o entry[2]
        object_data == vis_read_git_object(object_hash)
    IN  IF object_data.exc # "" THEN acc
        ELSE IF ~StartsWith(object_data.val.text, "commit") THEN acc
        ELSE IF ~object_data.val.utf8_ok THEN acc
        ELSE LET parsed == parse_commit_object(object_data.val.text)
             IN  IF parsed.exc # "" THEN acc
                 ELSE IF parsed.val.author_time = Nothing THEN acc   \* None <= int: TypeError
                 ELSE IF parsed.val.author_time[1] <= date_before
                      THEN Append(acc, <<object_hash, parsed.val.author_time[1]>>)
                      ELSE acc

\* A sort that is not stable: the item goes before the items of equal key
InsertByTime_unstable(sorted, item) ==
    LET n == Cardinality({j \in 1..Len(sorted) : sorted[j][2] < item[2]})
    IN  SubSeq(sorted, 1, n) \o <<item>> \o SubSeq(sorted, n + 1, Len(sorted))

\* Where list.sort puts one more item: after every item whose key is not greater
InsertByTime(sorted, item) ==
    LET n == Cardinality({j \in 1..Len(sorted) : sorted[j][2] <= item[2]})
    IN  SubSeq(sorted, 1, n) \o <<item>> \o SubSeq(sorted, n + 1, Len(sorted))

RECURSIVE SortByTimeFrom(_, _, _)
SortByTimeFrom(seq, k, sorted) ==
    IF k > Len(seq) THEN sorted
    ELSE SortByTimeFrom(seq, k + 1, InsertByTime(sorted, seq[k]))

\* commits.sort(key=lambda x: x[1]): ascending and stable
SortByTime(seq) == SortByTimeFrom(seq, 1, <<>>)

\* [commit_hash for commit_hash, _ in commits]
Hashes(seq) == [j \in 1..Len(seq) |-> seq[j][1]]

RECURSIVE build_commit_graph_from(_, _, _)
build_commit_graph_from(commit_hashes, k, g) ==
    IF k > Len(commit_hashes) THEN Ok(g)
    ELSE LET r == vis_read_git_object(commit_hashes[k])
         IN  IF r.exc # "" THEN r
             ELSE IF ~r.val.utf8_ok THEN Raise("UnicodeDecodeError")
             ELSE LET parsed == parse_commit_object(r.val.text)
                  IN  IF parsed.exc # "" THEN parsed
                      ELSE build_commit_graph_from(commit_hashes, k + 1,
                              GraphSet(g, commit_hashes[k], parsed.val.parents))

\* The loop of build_commit_graph over what get_all_commits returned
build_commit_graph_loop(commit_hashes) == build_commit_graph_from(commit_hashes, 1, <<>>)

\* A renderer that labels every edge of one commit with the same index
RECURSIVE plantuml_edges_same_index(_, _, _, _)
plantuml_edges_same_index(commit, parents, k, n) ==
    IF k > Len(parents) THEN <<>>
    ELSE <<"\"" \o parents[k] \o " (" \o ToStr(n) \o ")\" --> \""
            \o commit \o " (" \o ToStr(n + 1) \o ")\"">>
         \o plantuml_edges_same_index(commit, parents, k + 1, n)

RECURSIVE plantuml_edges(_, _, _, _)
plantuml_edges(commit, parents, k, n) ==
    IF k > Len(parents) THEN <<>>
    ELSE <<"\"" \o parents[k] \o " (" \o ToStr(n) \o ")\" --> \""
            \o commit \o " (" \o ToStr(n + 1) \o ")\"">>
         \o plantuml_edges(commit, parents, k + 1, n + 1)

RECURSIVE plantuml_items(_, _, _)
plantuml_items(g, k, n) ==
    IF k > Len(g) THEN <<>>
    ELSE plantuml_edges(g[k].key, g[k].val, 1, n)
         \o plantuml_items(g, k + 1, n + Len(g[k].val))

\* generate_plantuml(commit_graph): the lines `plantuml_lines`, which the
\* code joins with "\n"; the index i starts at 1
generate_plantuml_lines(g) == <<"@startuml">> \o plantuml_items(g, 1, 1) \o <<"@enduml">>

generate_plantuml(g) == Join(generate_plantuml_lines(g), "\n")

(***************************************************************************)
(* test.py                                                                 *)
(***************************************************************************)

RECURSIVE test_parse_lines(_, _, _)
test_parse_lines(lines, k, commit_data) ==
    IF k > Len(lines) THEN Ok(commit_data)
    ELSE LET line == lines[k]
             w == Split(line)
         IN  IF StartsWith(line, "parent")
             THEN IF Len(w) < 2 THEN Raise("IndexError")
                  ELSE test_parse_lines(lines, k + 1, DictSet(commit_data, "parent", w[2]))
             ELSE IF StartsWith(line, "author")
             THEN IF Len(w) < 2 THEN Raise("IndexError")
                  ELSE test_parse_lines(lines, k + 1, DictSet(commit_data, "author", w[2]))
             ELSE IF StartsWith(line, "committer")
             THEN IF Len(w) < 3 THEN Raise("IndexError")
                  ELSE IF ~IsInt(w[Len(w) - 1]) THEN Raise("ValueError")
                  ELSE test_parse_lines(lines, k + 1,
                          DictSet(DictSet(DictSet(commit_data,
                              "committer", w[2]),
                              "committer_email", w[3]),
                              "committer_timestamp", ToInt(w[Len(w) - 1])))
             ELSE IF StartsWith(line, "tree")
             THEN IF Len(w) < 2 THEN Raise("IndexError")
                  ELSE test_parse_lines(lines, k + 1, DictSet(commit_data, "tree", w[2]))
             ELSE IF StartsWith(line, "message")
             THEN IF Len(w) < 2 THEN Raise("IndexError")
                  ELSE test_parse_lines(lines, k + 1, DictSet(commit_data, "message", w[2]))
             ELSE test_parse_lines(lines, k + 1, commit_data)

\* parse_commit_data(data, commit_hash): every line of the object is looked
\* at, and a key found again replaces the value found before
test_parse_commit_data(data, commit_hash) ==
    IF ~data.utf8_ok THEN Raise("UnicodeDecodeError")
    ELSE test_parse_lines(SplitSep(data.text, "\n", -1), 1,
                          DictSet(EmptyDict, "commit_hash", commit_hash))

\* read_commit(commit_hash, repo_path)
read_commit(commit_hash) ==
    IF Len(commit_hash) < HashLen THEN Raise("ValueError")
    ELSE LET path == ObjectPath(commit_hash)
         IN  IF ~Exists(path) THEN Raise("FileNotFoundError")
             ELSE LET f == repo.objects[path]
                  IN  IF ~f.zlib_ok THEN Raise("zlib.error")
                      ELSE test_parse_commit_data(Bytes(f.text, f.utf8_ok), commit_hash)

\* get_commit_hash_from_ref(branch_ref, repo_path)
get_commit_hash_from_ref(branch_ref) ==
    IF branch_ref \notin DOMAIN repo.refs THEN Raise("FileNotFoundError")
    ELSE Ok(Strip(repo.refs[branch_ref]))

\* The start of get_commits_after_date: the commit HEAD names, through the
\* branch file when HEAD is symbolic
branch_commit_hash ==
    LET ref == Strip(repo.HEAD)
    IN  IF StartsWith(ref, "ref:")
        THEN IF Len(Split(ref)) < 2 THEN Raise("IndexError")
             ELSE get_commit_hash_from_ref(Split(ref)[2])
        ELSE Ok(ref)

(***************************************************************************)
(* Inputs: commit objects as git writes them                               *)
(***************************************************************************)

\* The most commits a store of the walk holds
MaxCommits == 3

\* The most parent lines a commit carries
MaxParents == 2

\* 38 hexadecimal characters, the file-name part of an object's hash
Hex38 == "0123456789abcdef0123456789abcdef012345"

\* The hash of the k-th commit of a store (k < 10)
CommitHash(k) == "c" \o ToStr(k) \o Hex38

RECURSIVE ParentLinesOf(_, _)
ParentLinesOf(parents, k) ==
    IF k > Len(parents) THEN <<>>
    ELSE <<"parent " \o parents[k]>> \o ParentLinesOf(parents, k + 1)

\* The payload of a commit object: header lines, a blank line, the message
CommitPayload(tree, parents, author_time, committer_time, message) ==
    Join(<<"tree " \o tree>>
         \o ParentLinesOf(parents, 1)
         \o <<"author John Doe <john@example.com> " \o ToStr(author_time) \o " +0000",
              "committer John Doe <john@example.com> " \o ToStr(committer_time) \o " +0000",
              "">>
         \o message, "\n") \o "\n"

\* The decompressed object: "<type> <length>" NUL payload
ObjectText(type, payload) == type \o " " \o ToStr(Len(payload)) \o NUL \o payload

CommitFile(tree, parents, author_time, committer_time, message) ==
    File(TRUE, ObjectText("commit",
            CommitPayload(tree, parents, author_time, committer_time, message)), TRUE)

\* Sequences of at most n distinct elements of S
DistinctSeqs(S, n) ==
    {s \in UNION {[1..m -> S] : m \in 0..n} :
        \A a, b \in 1..Len(s) : a # b => s[a] # s[b]}

(***************************************************************************)
(* test.py: the walk from HEAD (get_commits_after_date)                    *)
(***************************************************************************)

\* Committer timestamps and cutoffs of the walk's stores
WalkTimes == {100, 300}

WalkCutoffs == {150, 300}

\* The messages a commit of the walk's stores may carry; the k-th commit can
\* only quote the hash of an older one
WalkMessages(k) ==
    {<<"fix">>, <<"committer count is 100 now">>}
    \cup (IF k > 1 THEN {<<"see", "parent " \o CommitHash(1)>>} ELSE {})

\* The stores of n commits, each with parents among the older ones
RECURSIVE WalkStoresOf(_)
WalkStoresOf(n) ==
    IF n = 0 THEN {<<>>}
    ELSE {Append(store, [parents |-> ps, time |-> t, message |-> m]) :
            store \in WalkStoresOf(n - 1),
            ps \in DistinctSeqs(1..(n - 1), MaxParents),
            t \in WalkTimes,
            m \in WalkMessages(n)}

WalkObjects(store) ==
    [p \in {ObjectPath(CommitHash(k)) : k \in 1..MaxCommits} |->
        LET k == CHOOSE n \in 1..MaxCommits : ObjectPath(CommitHash(n)) = p
        IN  CommitFile("aaa111",
                       [j \in 1..Len(store[k].parents) |-> CommitHash(store[k].parents[j])],
                       store[k].time, store[k].time, store[k].message)]

\* HEAD names the newest commit, through refs/heads/main or directly
WalkHeads ==
    {[HEAD |-> "ref: refs/heads/main\n",
      refs |-> ("refs/heads/main" :> CommitHash(MaxCommits) \o "\n")],
     [HEAD |-> CommitHash(MaxCommits) \o "\n", refs |-> <<>>]}

InitWalk ==
    /\ \E store \in WalkStoresOf(MaxCommits), h \in WalkHeads :
          repo = [objects |-> WalkObjects(store), listing |-> <<>>,
                  HEAD |-> h.HEAD, refs |-> h.refs]
    /\ \E start_date \in WalkCutoffs : args = [start_date |-> start_date]
    /\ pc = "start"
    /\ objects = <<>>
    /\ i = 0
    /\ commits = <<>>
    /\ current_commit_hash = ""
    /\ visited = <<>>
    /\ graph = <<>>
    /\ result = <<>>

\* get_commits_after_date, lines 67-83: resolve HEAD and enter the loop
ResolveHead ==
    /\ pc = "start"
    /\ LET r == branch_commit_hash
       IN  IF r.exc # ""
           THEN /\ pc' = "raised"
                /\ result' = r.exc
                /\ UNCHANGED current_commit_hash
           ELSE /\ current_commit_hash' = r.val
                /\ IF r.val = ""
                   THEN pc' = "done" /\ result' = commits
                   ELSE pc' = "loop" /\ UNCHANGED result
    /\ UNCHANGED <<repo, args, objects, i, commits, visited, graph>>

\* get_commits_after_date, lines 83-98: one pass of the loop. The dates are
\* compared as the timestamps they stand for.
WalkStep ==
    /\ pc = "loop"
    /\ visited' = Append(visited, current_commit_hash)
    /\ \E commit_data \in {read_commit(current_commit_hash)} :
           IF commit_data.exc # ""
           THEN /\ pc' = "raised"
                /\ result' = commit_data.exc
                /\ UNCHANGED <<commits, current_commit_hash>>
           ELSE IF "committer_timestamp" \notin DOMAIN commit_data.val
           THEN /\ pc' = "raised"
                /\ result' = "KeyError"
                /\ UNCHANGED <<commits, current_commit_hash>>
           ELSE /\ commits' = IF commit_data.val["committer_timestamp"] >= args.start_date
                              THEN Append(commits, commit_data.val)
                              ELSE commits
                /\ current_commit_hash' = DictGet(commit_data.val, "parent", "")
                /\ IF current_commit_hash' = ""
                   THEN pc' = "done" /\ result' = commits'
                   ELSE pc' = "loop" /\ UNCHANGED result
    /\ UNCHANGED <<repo, args, objects, i, graph>>

NextWalk == ResolveHead \/ WalkStep

SpecWalk == InitWalk /\ [][NextWalk]_vars

(***************************************************************************)
(* The commit grammar, read independently of the parsers: header lines up  *)
(* to the first blank line, then the message                               *)
(***************************************************************************)

\* The payload of a decompressed object: what follows the first NUL
PayloadOf(text) == Last(SplitSep(text, NUL, 1))

\* The header lines of a commit payload: its lines before the first blank one
LinesBefore(lines, blanks) ==
    SubSeq(lines, 1, IF blanks = {} THEN Len(lines) ELSE Nth(blanks, 1) - 1)

LinesBeforeBlank(lines) == LinesBefore(lines, {k \in 1..Len(lines) : lines[k] = ""})

HeaderLines(payload) == LinesBeforeBlank(SplitSep(payload, "\n", -1))

\* The values of the header lines `<key> <value>` of a payload, in file order
ValuesOf(found, key) == [j \in 1..Len(found) |-> SliceFrom(found[j], Len(key) + 1)]

HeaderValues(payload, key) ==
    LET IsKey(line) == StartsWith(line, key \o " ")
    IN  ValuesOf(SelectSeq(HeaderLines(payload), IsKey), key)

\* The timestamp of a `<name> <email> <timestamp> <tz>` header value
SecondToLast(words) == words[Len(words) - 1]

TimestampOf(value) == ToInt(SecondToLast(Split(value)))

\* The stored commit named by a hash
StoredPayload(commit_hash) == PayloadOf(repo.objects[ObjectPath(commit_hash)].text)

\* The ancestry line of a stored commit through first parents, down to the root
RECURSIVE FirstParentLine(_)
FirstParentLine(commit_hash) ==
    LET parents == HeaderValues(StoredPayload(commit_hash), "parent")
    IN  IF parents = <<>> THEN <<commit_hash>>
        ELSE <<commit_hash>> \o FirstParentLine(parents[1])

\* C1: every commit the walk visits that has parent lines is followed by the
\* commit its first parent line names: the walk never continues along the
\* second or a later parent of a merge.
C1_WalkFollowsFirstParent ==
    \A j \in 1..(Len(visited) - 1) :
        LET parents == HeaderValues(StoredPayload(visited[j]), "parent")
        IN  parents # <<>> => visited[j + 1] = parents[1]

\* The store is a linear chain: no commit has more than one parent line
LinearStore ==
    \A p \in DOMAIN repo.objects :
        Len(HeaderValues(PayloadOf(repo.objects[p].text), "parent")) <= 1

\* The commits of a line whose committer timestamp is at or after the cutoff
AtOrAfter(line, cutoff) ==
    LET Kept(h) == TimestampOf(HeaderValues(StoredPayload(h), "committer")[1]) >= cutoff
    IN  SelectSeq(line, Kept)

\* C2: on a linear chain the walk from the head visits every commit down to
\* the root, stops there, and returns exactly the commits whose committer
\* timestamp is at or after the cutoff, each once.
C2_LinearChainWalk ==
    (LinearStore /\ pc \in {"done", "raised"}) =>
        /\ pc = "done"
        /\ visited = FirstParentLine(CommitHash(MaxCommits))
        /\ [j \in 1..Len(result) |-> result[j]["commit_hash"]]
              = AtOrAfter(FirstParentLine(CommitHash(MaxCommits)), args.start_date)

(***************************************************************************)
(* The commit parsers, each applied to one stored commit                   *)
(***************************************************************************)

\* The names a parent line of the parsers' inputs may carry: the test's
\* "def456" and hashes
ParseParentNames == {"def456"} \cup {CommitHash(k) : k \in 2..MaxParents}

ParseTimes == {100, 1625827216}

ParseMessages == {"Initial commit", "fix", "Merge branch dev into main"}

\* The payload of test_read_commit: every field on a keyed line, the message
\* on a `message` line, no blank line
TestPayload(tree, parents, time, message) ==
    Join(<<"tree " \o tree>>
         \o ParentLinesOf(parents, 1)
         \o <<"author John Doe <john@example.com> " \o ToStr(time) \o " +0000",
              "committer John Doe <john@example.com> " \o ToStr(time) \o " +0000",
              "message " \o message>>, "\n")

\* The stored texts the parsers are given: commit objects as git writes them,
\* and payloads as test_read_commit's decompress hands them over
ParseTexts ==
    {ObjectText("commit", CommitPayload("abc123", ps, t, t, <<m>>)) :
        ps \in DistinctSeqs(ParseParentNames, MaxParents), t \in ParseTimes, m \in ParseMessages}
    \cup
    {TestPayload("abc123", ps, t, m) :
        ps \in DistinctSeqs(ParseParentNames, MaxParents), t \in ParseTimes, m \in ParseMessages}

InitParse ==
    /\ \E text \in ParseTexts :
          repo = [objects |-> (ObjectPath(CommitHash(1)) :> File(TRUE, text, TRUE)),
                  listing |-> <<<<SliceTo(CommitHash(1), DirLen), SliceFrom(CommitHash(1), DirLen)>>>>,
                  HEAD |-> "", refs |-> <<>>]
    /\ args = [commit_hash |-> CommitHash(1)]
    /\ pc = "start"
    /\ objects = <<>>
    /\ i = 0
    /\ commits = <<>>
    /\ current_commit_hash = ""
    /\ visited = <<>>
    /\ graph = <<>>
    /\ result = <<>>

\* test.py read_commit(commit_hash, repo_path)
ReadCommit ==
    /\ pc = "start"
    /\ pc' = "read_commit"
    /\ result' = read_commit(args.commit_hash)
    /\ UNCHANGED <<repo, args, objects, i, commits, current_commit_hash, visited, graph>>

\* visualizer.py build_commit_graph, lines 72-75, for one commit hash
ParseCommitObject ==
    /\ pc = "start"
    /\ pc' = "parse_commit_object"
    /\ \E r \in {build_commit_graph_loop(<<args.commit_hash>>)} :
          /\ result' = r
          /\ graph' = IF r.exc = "" THEN r.val ELSE graph
    /\ UNCHANGED <<repo, args, objects, i, commits, current_commit_hash, visited>>

\* git_dependency_visualizer.py find_commits, lines 43-47: read, decode, parse
ParseCommitData ==
    /\ pc = "start"
    /\ pc' = "parse_commit_data"
    /\ \E r \in {gdv_read_git_object(args.commit_hash)} :
          result' = IF r.exc # "" THEN r
                    ELSE IF ~r.val.data.utf8_ok THEN Raise("UnicodeDecodeError")
                    ELSE gdv_parse_commit_data(r.val.data.text, FALSE)
    /\ UNCHANGED <<repo, args, objects, i, commits, current_commit_hash, visited, graph>>

\* git_dependency_visualizer.py build_dependency_graph for one commit hash
BuildDependencyGraphOfOne ==
    /\ pc = "start"
    /\ pc' = "build_dependency_graph"
    /\ \E r \in {build_dependency_graph(<<args.commit_hash>>)} :
          /\ result' = r
          /\ graph' = IF r.exc = "" THEN r.val ELSE graph
    /\ UNCHANGED <<repo, args, objects, i, commits, current_commit_hash, visited>>

NextParse == ReadCommit \/ ParseCommitObject \/ ParseCommitData \/ BuildDependencyGraphOfOne

SpecParse == InitParse /\ [][NextParse]_vars

\* The parent lines of the commit the parsers were given
GivenParents == HeaderValues(StoredPayload(args.commit_hash), "parent")

\* The stored text is an object as git writes it: a header, NUL, the payload
GitShaped == Len(SplitSep(repo.objects[ObjectPath(args.commit_hash)].text, NUL, 1)) = 2

\* C3: each parser's parent list has one entry per parent line of the
\* payload, in file order, and so has the list stored in the commit graph.
C3_ParentsCountedInOrder ==
    /\ (pc = "parse_commit_object" /\ GitShaped) =>
          result.exc = "" /\ graph = <<[key |-> args.commit_hash, val |-> GivenParents]>>
    /\ (pc = "parse_commit_data" /\ GitShaped) =>
          result.exc = "" /\ Split(DictGet(result.val, "parent", "")) = GivenParents
    /\ (pc = "build_dependency_graph" /\ GitShaped) =>
          result.exc = "" /\ graph = <<[key |-> args.commit_hash, val |-> GivenParents]>>
    /\ pc = "read_commit" =>
          result.exc = "" /\ (IF "parent" \in DOMAIN result.val
                              THEN <<result.val["parent"]>> ELSE <<>>) = GivenParents

\* The stored payload has the lines of test_read_commit's: a `message` line
\* and one parent line
TestShaped ==
    /\ Len(HeaderValues(StoredPayload(args.commit_hash), "message")) = 1
    /\ Len(GivenParents) = 1

\* C9: read_commit returns the requested hash, the hash of the parent line,
\* the integer timestamp of the committer line and the whole text that
\* follows `message`.
C9_ReadCommitRecord ==
    (pc = "read_commit" /\ TestShaped) =>
        /\ result.exc = ""
        /\ result.val["commit_hash"] = args.commit_hash
        /\ result.val["parent"] = GivenParents[1]
        /\ result.val["committer_timestamp"]
              = TimestampOf(HeaderValues(StoredPayload(args.commit_hash), "committer")[1])
        /\ result.val["message"] = HeaderValues(StoredPayload(args.commit_hash), "message")[1]

(***************************************************************************)
(* The renderers, each applied to one commit graph                         *)
(***************************************************************************)

\* The most keys a rendered graph has
MaxKeys == 2

\* The commits that are keys of a rendered graph: "C1", "C2", ...
KeyNames == {"C" \o ToStr(k) : k \in 1..MaxKeys}

\* The parents a rendered graph names: a commit that may be a key, and one
\* that never is (an ancestor outside the selected set)
ParentNames == {"C1", "C0"}

\* The parent lists of a rendered commit: none, one parent, or both in either order
ParentLists == DistinctSeqs(ParentNames, Cardinality(ParentNames))

\* The commit graphs rendered: distinct keys in any order, any parent lists
RenderGraphs ==
    UNION {{[k \in 1..Len(keys) |-> [key |-> keys[k], val |-> vals[k]]] :
                vals \in [1..Len(keys) -> ParentLists]} :
           keys \in DistinctSeqs(KeyNames, MaxKeys)}

InitRender ==
    /\ repo = [objects |-> <<>>, listing |-> <<>>, HEAD |-> "", refs |-> <<>>]
    /\ args = <<>>
    /\ pc = "start"
    /\ objects = <<>>
    /\ i = 0
    /\ commits = <<>>
    /\ current_commit_hash = ""
    /\ visited = <<>>
    /\ graph \in RenderGraphs
    /\ result = ""

\* git_dependency_visualizer.py generate_graphviz(graph)
GenerateGraphviz ==
    /\ pc = "start"
    /\ pc' = "generate_graphviz"
    /\ result' = generate_graphviz(graph)
    /\ UNCHANGED <<repo, args, objects, i, commits, current_commit_hash, visited, graph>>

\* visualizer.py generate_plantuml(commit_graph)
GeneratePlantuml ==
    /\ pc = "start"
    /\ pc' = "generate_plantuml"
    /\ result' = generate_plantuml(graph)
    /\ UNCHANGED <<repo, args, objects, i, commits, current_commit_hash, visited, graph>>

NextRender == GenerateGraphviz \/ GeneratePlantuml

SpecRender == InitRender /\ [][NextRender]_vars

\* The number of parents of the first k keys of a graph
RECURSIVE ParentCount(_, _)
ParentCount(g, k) == IF k = 0 THEN 0 ELSE ParentCount(g, k - 1) + Len(g[k].val)

\* The text rendered, as its lines without their indentation
RECURSIVE StrippedFrom(_, _)
StrippedFrom(lines, n) ==
    IF n > Len(lines) THEN <<>> ELSE <<Strip(lines[n])>> \o StrippedFrom(lines, n + 1)

Statements == StrippedFrom(SplitSep(result, "\n", -1), 1)

\* C7: the DOT text holds, for each key in graph order, the node declaration
\* "<commit>" [label="<commit>"]; followed directly by one edge statement
\* "<commit>" -> "<parent>"; per parent, in list order, and nothing else
\* between the two opening lines and the closing brace.
C7_GraphvizStatements ==
    pc = "generate_graphviz" =>
        \E stmts \in {Statements} :
            /\ Len(stmts) = 3 + Len(graph) + ParentCount(graph, Len(graph))
            /\ stmts[1] = "digraph G {"
            /\ stmts[Len(stmts)] = "}"
            /\ \A k \in 1..Len(graph) :
                  LET at == 2 + k + ParentCount(graph, k - 1)
                  IN  /\ stmts[at]
                            = "\"" \o graph[k].key \o "\" [label=\"" \o graph[k].key \o "\"];"
                      /\ \A m \in 1..Len(graph[k].val) :
                            stmts[at + m]
                                = "\"" \o graph[k].key \o "\" -> \"" \o graph[k].val[m] \o "\";"

\* C7's case: {"C2": ["C1"]} rendered as the declaration of C2, then its edge
C7_Witness ==
    /\ pc = "generate_graphviz"
    /\ graph = <<[key |-> "C2", val |-> <<"C1">>]>>
    /\ SubSeq(Statements, 3, 4) = <<"\"C2\" [label=\"C2\"];", "\"C2\" -> \"C1\";">>

\* C8: between @startuml and @enduml the PlantUML text holds one edge
\* statement per (commit, parent) pair, in graph order then parent order; the
\* n-th is "<parent> (n)" --> "<commit> (n+1)".
C8_PlantumlStatements ==
    pc = "generate_plantuml" =>
        \E stmts \in {Statements} :
            /\ Len(stmts) = 2 + ParentCount(graph, Len(graph))
            /\ stmts[1] = "@startuml"
            /\ stmts[Len(stmts)] = "@enduml"
            /\ \A k \in 1..Len(graph) : \A m \in 1..Len(graph[k].val) :
                  LET n == ParentCount(graph, k - 1) + m
                  IN  stmts[1 + n]
                          = "\"" \o graph[k].val[m] \o " (" \o ToStr(n) \o ")\" --> \""
                            \o graph[k].key \o " (" \o ToStr(n + 1) \o ")\""

\* C8's case: a graph with a root commit and a merge, whose two edges are
\* numbered 1 and 2
C8_Witness ==
    /\ pc = "generate_plantuml"
    /\ graph = <<[key |-> "C1", val |-> <<>>], [key |-> "C2", val |-> <<"C1", "C0">>]>>
    /\ Statements = <<"@startuml", "\"C1 (1)\" --> \"C2 (2)\"",
                      "\"C0 (2)\" --> \"C2 (3)\"", "@enduml">>

(***************************************************************************)
(* Object stores for the scans                                             *)
(***************************************************************************)

\* The most files under .git/objects in a scanned store
MaxObjects == 3

\* The hash of the k-th object of a scanned store (k < 10)
ScanHash(k) == "a" \o ToStr(k) \o Hex38

\* Where the k-th file of a scanned store lies, as (directory name, file name):
\*   "hash"   <2 characters>/<38 characters>, a loose object
\*   "short"  <2 characters>/<37 characters>
\*   "pack"   pack/<38 characters>
ScanName(k, layout) ==
    IF layout = "hash" THEN <<SliceTo(ScanHash(k), DirLen), SliceFrom(ScanHash(k), DirLen)>>
    ELSE IF layout = "short" THEN <<SliceTo(ScanHash(k), DirLen), SubSeq(Hex38, 1, FileNameLen - 1)>>
    ELSE <<"pack", ToStr(k) \o SubSeq(Hex38, 1, FileNameLen - 1)>>

\* The files a scanned store may hold
ScanFile(content) ==
    CASE content = "A" -> CommitFile("aaa111", <<>>, 100, 100, <<"root">>)
      [] content = "B" -> CommitFile("bbb222", <<ScanHash(1)>>, 200, 200, <<"second">>)
      [] content = "M" -> CommitFile("11aaa3", <<ScanHash(2), ScanHash(1)>>, 100, 300, <<"merge">>)
      [] content = "blob" -> File(TRUE, ObjectText("blob", "binary"), FALSE)
      [] content = "corrupt" -> File(FALSE, "", FALSE)
      [] content = "nonul" -> File(TRUE, "commit 9 tree aaa111", TRUE)
      [] content = "latin1" ->
            File(TRUE, ObjectText("commit",
                    CommitPayload("aaa111", <<>>, 100, 100, <<"caf?">>)), FALSE)
      [] content = "odd" ->
            File(TRUE, ObjectText("commit",
                    Join(<<"tree aaa111",
                           "author John Doe <john@example.com> yesterday +0000",
                           "committer John Doe <john@example.com> 100 +0000",
                           "encoding", "", "odd">>, "\n")), TRUE)

\* A file of a scanned store: its layout and its content. Every content lies
\* at a loose object's place; a commit may also lie at the two other places.
ScanEntries ==
    {[layout |-> "hash", content |-> c] :
        c \in {"A", "B", "M", "blob", "corrupt", "nonul", "latin1", "odd"}}
    \cup {[layout |-> "short", content |-> "A"], [layout |-> "pack", content |-> "A"]}

\* The stores scanned: at most MaxObjects files, met by os.walk in this order
ScanStores == UNION {[1..n -> ScanEntries] : n \in 0..MaxObjects}

ScanRepo(store) ==
    [objects |-> [p \in {ScanName(k, store[k].layout) : k \in 1..Len(store)} |->
                    ScanFile(store[CHOOSE k \in 1..Len(store) :
                                       ScanName(k, store[k].layout) = p].content)],
     listing |-> [k \in 1..Len(store) |-> ScanName(k, store[k].layout)],
     HEAD |-> "", refs |-> <<>>]

(***************************************************************************)
(* git_dependency_visualizer.py: main, from find_commits on                *)
(***************************************************************************)

FindTargets == {"aaa", "b2"}

InitFind ==
    /\ \E store \in ScanStores : repo = ScanRepo(store)
    /\ \E target_file \in FindTargets : args = [target_file |-> target_file]
    /\ pc = "start"
    /\ objects = <<>>
    /\ i = 0
    /\ commits = <<>>
    /\ current_commit_hash = ""
    /\ visited = <<>>
    /\ graph = <<>>
    /\ result = <<>>

\* find_commits, lines 40-41
FindCommitsStart ==
    /\ pc = "start"
    /\ pc' = "find_commits"
    /\ commits' = <<>>
    /\ objects' = list_git_objects
    /\ i' = 1
    /\ UNCHANGED <<repo, args, current_commit_hash, visited, graph, result>>

\* find_commits, lines 42-52: one pass of the loop
FindCommitsStep ==
    /\ pc = "find_commits"
    /\ i <= Len(objects)
    /\ \E r \in {find_commits_body(objects[i], args.target_file, commits)} :
          IF r.exc # ""
          THEN pc' = "find_raised" /\ result' = r.exc /\ UNCHANGED <<commits, i>>
          ELSE pc' = pc /\ commits' = r.val /\ i' = i + 1 /\ UNCHANGED result
    /\ UNCHANGED <<repo, args, objects, current_commit_hash, visited, graph>>

\* find_commits, line 53
FindCommitsReturn ==
    /\ pc = "find_commits"
    /\ i > Len(objects)
    /\ pc' = "found"
    /\ result' = commits
    /\ UNCHANGED <<repo, args, objects, i, commits, current_commit_hash, visited, graph>>

\* main, lines 110-112: nothing found
MainExit ==
    /\ pc = "found"
    /\ result = <<>>
    /\ pc' = "exit"
    /\ UNCHANGED <<repo, args, objects, i, commits, current_commit_hash, visited, graph, result>>

\* main, line 115: build_dependency_graph(args.repo_path, commits)
BuildDependencyGraph ==
    /\ pc = "found"
    /\ result # <<>>
    /\ \E r \in {build_dependency_graph(result)} :
          IF r.exc # ""
          THEN pc' = "build_raised" /\ result' = r.exc /\ UNCHANGED graph
          ELSE pc' = "built" /\ graph' = r.val /\ UNCHANGED result
    /\ UNCHANGED <<repo, args, objects, i, commits, current_commit_hash, visited>>

NextFind ==
    FindCommitsStart \/ FindCommitsStep \/ FindCommitsReturn \/ MainExit \/ BuildDependencyGraph

SpecFind == InitFind /\ [][NextFind]_vars

(***************************************************************************)
(* visualizer.py: build_commit_graph, from get_all_commits on              *)
(***************************************************************************)

DateCutoffs == {100, 200}

\* The stores get_all_commits walks: loose objects only, each a commit, a
\* blob, a file that does not decompress, a commit that is not UTF-8 or a
\* commit whose author line carries no integer
DateStores ==
    UNION {[1..n -> {[layout |-> "hash", content |-> c] :
                        c \in {"A", "B", "M", "blob", "corrupt", "latin1", "odd"}}] :
           n \in 0..MaxObjects}

InitDates ==
    /\ \E store \in DateStores : repo = ScanRepo(store)
    /\ \E date_before \in DateCutoffs : args = [date_before |-> date_before]
    /\ pc = "get_all_commits"
    /\ objects = <<>>
    /\ i = 1
    /\ commits = <<>>
    /\ current_commit_hash = ""
    /\ visited = <<>>
    /\ graph = <<>>
    /\ result = <<>>

\* get_all_commits, lines 50-60: one pass of the loop over the walked files
GetAllCommitsStep ==
    /\ pc = "get_all_commits"
    /\ i <= Len(repo.listing)
    /\ commits' = get_all_commits_body(repo.listing[i], args.date_before, commits)
    /\ i' = i + 1
    /\ UNCHANGED <<repo, args, pc, objects, current_commit_hash, visited, graph, result>>

\* get_all_commits, lines 63-64: sort in place and return the hashes
GetAllCommitsReturn ==
    /\ pc = "get_all_commits"
    /\ i > Len(repo.listing)
    /\ pc' = "build_commit_graph"
    /\ commits' = SortByTime(commits)
    /\ result' = Hashes(commits')
    /\ UNCHANGED <<repo, args, objects, i, current_commit_hash, visited, graph>>

\* build_commit_graph, lines 72-77
BuildCommitGraph ==
    /\ pc = "build_commit_graph"
    /\ \E r \in {build_commit_graph_loop(result)} :
          IF r.exc # ""
          THEN pc' = "build_raised" /\ UNCHANGED graph
          ELSE pc' = "built" /\ graph' = r.val
    /\ UNCHANGED <<repo, args, objects, i, commits, current_commit_hash, visited, result>>

NextDates == GetAllCommitsStep \/ GetAllCommitsReturn \/ BuildCommitGraph

SpecDates == InitDates /\ [][NextDates]_vars

(***************************************************************************)
(* The scans' claims, stated on the stored objects themselves              *)
(***************************************************************************)

\* The file a hash names is a commit object: it decompresses to
\* "commit <length>" NUL payload
IsCommitText(parts) == Len(parts) = 2 /\ Split(parts[1])[1] = "commit"

IsCommitObject(object_hash) ==
    /\ Exists(ObjectPath(object_hash))
    /\ repo.objects[ObjectPath(object_hash)].zlib_ok
    /\ IsCommitText(SplitSep(repo.objects[ObjectPath(object_hash)].text, NUL, 1))

\* ... and its payload is valid UTF-8
IsTextCommit(object_hash) ==
    IsCommitObject(object_hash) /\ repo.objects[ObjectPath(object_hash)].utf8_ok

\* A commit whose tree field holds the target as a substring
MatchesTarget(object_hash) ==
    /\ IsTextCommit(object_hash)
    /\ HeaderValues(StoredPayload(object_hash), "tree") # <<>>
    /\ Contains(args.target_file, Last(HeaderValues(StoredPayload(object_hash), "tree")))

\* C4: a failure on one object never aborts the scan: the object is skipped,
\* the rest is examined, and every matching commit that decodes is found.
C4_ScanNeverAborts ==
    /\ pc # "find_raised"
    /\ pc = "found" =>
          \A k \in 1..Len(objects) :
              MatchesTarget(objects[k]) => \E n \in 1..Len(result) : result[n] = objects[k]

\* C5: find_commits returns exactly the enumerated commits whose tree field
\* holds the target, each once and in enumeration order.
C5_FindCommitsExact ==
    pc \in {"found", "find_raised"} =>
        /\ pc = "found"
        /\ result = SelectSeq(objects, MatchesTarget)

\* C10: every enumerated hash and every key of a commit graph has 40 characters.
C10_HashesHave40Characters ==
    /\ \A k \in 1..Len(objects) : Len(objects[k]) = HashLen
    /\ \A k \in 1..Len(graph) : Len(graph[k].key) = HashLen

\* The hash get_all_commits forms for the k-th walked file
WalkedHash(k) == repo.listing[k][1] \o repo.listing[k][2]

\* Every header line that starts with tree, parent or author has a value,
\* and the author line's second-to-last word is an integer
HeaderReadable(lines, authors) ==
    /\ \A n \in 1..Len(lines) :
          (\E key \in {"tree", "parent", "author"} : StartsWith(lines[n], key))
              => Len(Split(lines[n])) >= 2
    /\ authors # <<>>
    /\ \A n \in 1..Len(authors) :
          \E w \in {Split(authors[n])} : Len(w) >= 2 /\ IsInt(w[Len(w) - 1])

\* The author timestamp of the k-th walked file, -1 unless the file is a
\* commit object with a readable header
ReadableTime(lines, authors) ==
    IF HeaderReadable(lines, authors) THEN TimestampOf(Last(authors)) ELSE -1

AuthorTime(k) ==
    IF ~IsCommitObject(WalkedHash(k)) THEN -1
    ELSE ReadableTime(HeaderLines(StoredPayload(WalkedHash(k))),
                      HeaderValues(StoredPayload(WalkedHash(k)), "author"))

RECURSIVE AuthorTimesFrom(_)
AuthorTimesFrom(k) ==
    IF k > Len(repo.listing) THEN <<>> ELSE <<AuthorTime(k)>> \o AuthorTimesFrom(k + 1)

\* The walked files that are commit objects with a readable header and an
\* author timestamp at or before the cutoff
DatedCommits(times) ==
    {k \in 1..Len(times) : times[k] # -1 /\ times[k] <= args.date_before}

\* ... and those among them that are valid UTF-8
DatedTextCommits(times) ==
    {k \in DatedCommits(times) : repo.objects[ObjectPath(WalkedHash(k))].utf8_ok}

\* The hashes of a set of walked files by ascending author timestamp, files
\* of equal timestamp in the order they were walked
ByTimeThenWalk(S, times) ==
    LET Rank(k) == Cardinality({j \in S :
                        \/ times[j] < times[k]
                        \/ times[j] = times[k] /\ j <= k})
    IN  [n \in 1..Cardinality(S) |-> WalkedHash(CHOOSE k \in S : Rank(k) = n)]

\* The keys of a commit graph, in insertion order
Keys(g) == [k \in 1..Len(g) |-> g[k].key]

\* C6 as stated: get_all_commits returns every commit object of the store
\* whose author timestamp is at or before the cutoff, by ascending timestamp,
\* equal timestamps in walk order, and build_commit_graph keeps that order.
C6_AllCommitObjectsByDate ==
    pc \in {"build_commit_graph", "built", "build_raised"} =>
        /\ \E times \in {AuthorTimesFrom(1)} : result = ByTimeThenWalk(DatedCommits(times), times)
        /\ pc # "build_raised"
        /\ pc = "built" => Keys(graph) = result

\* C6 amended: the same of the commit objects that are valid UTF-8 and whose
\* header is readable; a commit that does not decode is skipped.
C6_TextCommitsByDate ==
    pc \in {"build_commit_graph", "built", "build_raised"} =>
        /\ \E times \in {AuthorTimesFrom(1)} : result = ByTimeThenWalk(DatedTextCommits(times), times)
        /\ pc # "build_raised"
        /\ pc = "built" => Keys(graph) = result

\* C6's case: commits walked as B (200), A (100), M (100) with cutoff 200 come
\* out as A, M, B, and the graph's keys in that order
C6_Witness ==
    /\ pc = "built"
    /\ args.date_before = 200
    /\ Len(repo.listing) = 3
    /\ result = <<WalkedHash(2), WalkedHash(3), WalkedHash(1)>>
    /\ Keys(graph) = result
    /\ AuthorTimesFrom(1) = <<200, 100, 100>>

====
